---- MODULE Spec2Model ----
(***************************************************************************)
(* graphqlgin: a gin handler for a GraphQL schema with context providers   *)
(* and GraphQL multipart uploads.  The model follows the package source    *)
(* (package graphqlgin): New, GraphQLApp.Handler and the request closure   *)
(* it returns, set, graphqlErrorReply, GinContextProvider, GetGinContext.  *)
(*                                                                         *)
(* Dynamically typed Go values (interface{}) are tagged records:           *)
(*   [t |-> "null"]               nil interface (JSON null)                *)
(*   [t |-> "num", n |-> 5]       float64                                  *)
(*   [t |-> "str", s |-> "abc"]   string                                   *)
(*   [t |-> "obj", m |-> f]       map[string]interface{} (f: keys -> value)*)
(*   [t |-> "nilmap"]             a nil map[string]interface{}             *)
(*   [t |-> "list", l |-> seq]    []interface{}                            *)
(*   [t |-> "file", c, field, name]  *multipart.FileHeader of a form file  *)
(***************************************************************************)
EXTENDS Integers, Sequences, FiniteSets, TLC

VARIABLES
    app,        \* the *GraphQLApp: "none" before New, else [ContextProviders |-> seq]
    handlers,   \* the provider arguments of every Handler call so far, in call order
    request,    \* the request being served: the raw transport data, or NoRequest
    frame,      \* the locals of the request closure (pc, graphqlRequest, ...)
    response,   \* what c has written: status, committed, aborted, body
    log         \* observations: providers run, engine invocations, probes, set calls

vars == <<app, handlers, request, frame, response, log>>

----------------------------------------------------------------------------
(* Go values *)

Null == [t |-> "null"]
NilMap == [t |-> "nilmap"]
Num(n) == [t |-> "num", n |-> n]
Str(s) == [t |-> "str", s |-> s]
Obj(m) == [t |-> "obj", m |-> m]
List(l) == [t |-> "list", l |-> l]

EmptyMap == [k \in {} |-> Null]

\* A write that leaves a map holding the written entry alone.
MapPutAlone(m, key, v) == [k \in {key} |-> v]

\* m[key] = v on a TLA+ function used as a Go map: the key is added or overwritten.
MapPut(m, key, v) == [k \in (DOMAIN m) \cup {key} |-> IF k = key THEN v ELSE m[k]]

----------------------------------------------------------------------------
(* strings.Split, regexp.MatchString(`\d+`, p), strconv.Atoi *)

Digits == {"0", "1", "2", "3", "4", "5", "6", "7", "8", "9"}

DigitValue(ch) ==
    CASE ch = "0" -> 0 [] ch = "1" -> 1 [] ch = "2" -> 2 [] ch = "3" -> 3
      [] ch = "4" -> 4 [] ch = "5" -> 5 [] ch = "6" -> 6 [] ch = "7" -> 7
      [] ch = "8" -> 8 [] ch = "9" -> 9

CharAt(s, i) == SubSeq(s, i, i)

\* strings.Split(s, sep) for the one-character separator ".": the pieces between
\* separators, empty pieces included; Split("", ".") is <<"">>.
RECURSIVE SplitFrom(_, _, _, _)
SplitFrom(s, sep, start, i) ==
    IF i > Len(s) THEN <<SubSeq(s, start, Len(s))>>
    ELSE IF CharAt(s, i) = sep
         THEN <<SubSeq(s, start, i - 1)>> \o SplitFrom(s, sep, i + 1, i + 1)
         ELSE SplitFrom(s, sep, start, i + 1)

Split(s, sep) == SplitFrom(s, sep, 1, 1)

\* regexp.MatchString(`\d+`, p): the pattern is not anchored, so it matches as
\* soon as p contains one decimal digit.
MatchDigits(p) == \E i \in 1..Len(p) : CharAt(p, i) \in Digits

AllDigits(p) == Len(p) > 0 /\ \A i \in 1..Len(p) : CharAt(p, i) \in Digits

RECURSIVE DecimalValue(_)
DecimalValue(p) ==
    IF Len(p) = 0 THEN 0
    ELSE 10 * DecimalValue(SubSeq(p, 1, Len(p) - 1)) + DigitValue(CharAt(p, Len(p)))

\* index, _ := strconv.Atoi(p): an optional sign and decimal digits; on a syntax
\* error Atoi returns 0 and the error, which set discards.
Atoi(p) ==
    IF AllDigits(p) THEN DecimalValue(p)
    ELSE IF Len(p) > 1 /\ CharAt(p, 1) = "+" /\ AllDigits(Tail(p)) THEN DecimalValue(Tail(p))
    ELSE IF Len(p) > 1 /\ CharAt(p, 1) = "-" /\ AllDigits(Tail(p)) THEN 0 - DecimalValue(Tail(p))
    ELSE 0

----------------------------------------------------------------------------
(* set(v, m, path) *)

IntPart(i) == [k |-> "int", i |-> i]
StrPart(s) == [k |-> "string", s |-> s]

\* set, lines 84-94: each piece of the path becomes an int part when the regexp
\* matches it, a string part otherwise.
PathPart(p) == IF MatchDigits(p) THEN IntPart(Atoi(p)) ELSE StrPart(p)

PathParts(path) ==
    LET pieces == Split(path, ".")
    IN  [i \in 1..Len(pieces) |-> PathPart(pieces[i])]

\* A run-time panic of the Go code (failed type assertion, assignment to an entry
\* of a nil map, index out of range).
Panic == [t |-> "panic"]

\* set, lines 102-118: the loop over parts[1:].  m is the cursor; a write into a
\* map or into a slice element is seen through every reference to it, so the
\* result is the root with the addressed position replaced.  Every step asserts
\* the type of the cursor before it indexes it; the assertion, the index and a
\* write to a nil map panic.
RECURSIVE Navigate(_, _, _)
Navigate(m, parts, v) ==
    LET p == Head(parts)
        last == Len(parts) = 1
    IN  IF p.k = "string"
        THEN IF m.t = "obj"
             THEN IF last THEN Obj(MapPut(m.m, p.s, v))
                  ELSE IF p.s \in DOMAIN m.m
                       THEN LET r == Navigate(m.m[p.s], Tail(parts), v)
                            IN  IF r = Panic THEN Panic ELSE Obj(MapPut(m.m, p.s, r))
                       ELSE Navigate(Null, Tail(parts), v)
             ELSE IF m.t = "nilmap"
                  THEN IF last THEN Panic ELSE Navigate(Null, Tail(parts), v)
                  ELSE Panic
        ELSE IF m.t = "list" /\ p.i >= 0 /\ p.i < Len(m.l)
             THEN IF last THEN List([m.l EXCEPT ![p.i + 1] = v])
                  ELSE LET r == Navigate(m.l[p.i + 1], Tail(parts), v)
                       IN  IF r = Panic THEN Panic ELSE List([m.l EXCEPT ![p.i + 1] = r])
             ELSE Panic

\* set that accumulates: when the position already holds the value, the write
\* stores a list of the old and the new value instead of overwriting.
setAccumulating(v, m, path) ==
    LET parts == PathParts(path)
    IN  IF Len(parts) = 0
        THEN [kind |-> "error", m |-> m, err |-> "empty path found"]
        ELSE IF parts[1] # StrPart("variables")
        THEN [kind |-> "error", m |-> m,
              err |-> "first part of path is supposed to be variables"]
        ELSE IF Len(parts) = 1
        THEN [kind |-> "ok", m |-> m, err |-> "nil"]
        ELSE LET r == Navigate(m, Tail(parts), v)
             IN  IF r = Panic
                 THEN [kind |-> "panic", m |-> m, err |-> "panic"]
                 ELSE IF r = m
                 THEN [kind |-> "ok", m |-> Navigate(m, Tail(parts), List(<<v, v>>)),
                       err |-> "nil"]
                 ELSE [kind |-> "ok", m |-> r, err |-> "nil"]

\* set without the test of the first part (lines 98-100).
setWithoutRootCheck(v, m, path) ==
    LET parts == PathParts(path)
    IN  IF Len(parts) = 1
        THEN [kind |-> "ok", m |-> m, err |-> "nil"]
        ELSE LET r == Navigate(m, Tail(parts), v)
             IN  IF r = Panic
                 THEN [kind |-> "panic", m |-> m, err |-> "panic"]
                 ELSE [kind |-> "ok", m |-> r, err |-> "nil"]

\* set: the outcome is [kind |-> "ok" | "error" | "panic", m |-> the root
\* afterwards, err |-> the error text].
set(v, m, path) ==
    LET parts == PathParts(path)
    IN  IF Len(parts) = 0
        THEN [kind |-> "error", m |-> m, err |-> "empty path found"]
        ELSE IF parts[1] # StrPart("variables")
        THEN [kind |-> "error", m |-> m,
              err |-> "first part of path is supposed to be variables"]
        ELSE IF Len(parts) = 1
        THEN [kind |-> "ok", m |-> m, err |-> "nil"]
        ELSE LET r == Navigate(m, Tail(parts), v)
             IN  IF r = Panic
                 THEN [kind |-> "panic", m |-> m, err |-> "panic"]
                 ELSE [kind |-> "ok", m |-> r, err |-> "nil"]

----------------------------------------------------------------------------
(* The JSON documents of the requests, and encoding/json on them *)

\* operations documents
OpsSkeleton ==
    "{\"query\":\"m\",\"operationName\":\"up\",\"variables\":{\"file\":null,\"value\":10,\"files\":[null,null],\"input\":{\"file\":null},\"file1\":null}}"
OpsSingle == "{\"query\":\"m\",\"operationName\":\"up\",\"variables\":{\"file\":null}}"
OpsNoVariables == "{\"query\":\"m\"}"
OpsMalformed == "{\"query\":"
OpsBadType == "{\"query\":\"m\",\"variables\":[null]}"

\* operations documents for the paths of set: a variables tree with nested
\* objects and lists, and operations whose variables are null
OpsTree ==
    "{\"query\":\"m\",\"variables\":{\"a\":{\"b\":[null,null,{\"c\":null,\"d\":1}]},\"file\":null,\"file1\":null,\"files\":[null,null],\"n\":1}}"
OpsNullVariables == "{\"query\":\"m\",\"variables\":null}"

\* map documents
MapSingle == "{\"file\":[\"variables.file\"]}"
MapMulti == "{\"0\":[\"variables.files.0\"],\"1\":[\"variables.files.1\"]}"
MapNested == "{\"file\":[\"variables.input.file\"],\"1\":[\"variables.file\"]}"
MapReuse == "{\"file\":[\"variables.file\",\"variables.files.1\"]}"
MapShape == "{\"file\":[\"variables.file.x\"]}"
MapDigitKey == "{\"file\":[\"variables.file1\"]}"
MapAbsent == "{\"nofile\":[\"variables.file\"]}"
MapValue == "{\"value\":[\"variables.value\"],\"file\":[\"variables.file\"]}"
MapTwoTexts ==
    "{\"a\":[\"variables.file\",\"variables.value\"],\"b\":[\"variables.input.file\"]}"
MapSamePath == "{\"a\":[\"variables.file\"],\"b\":[\"variables.file\"]}"
MapMalformed == "{\"file\":"
MapBadType == "{\"file\":\"variables.file\"}"

\* The map document that sends the form field "file" to one path.
MapFor(path) == "{\"file\":[\"" \o path \o "\"]}"

\* Paths given to set: leaves of objects and lists, a new key, keys that contain
\* a digit, the root alone, first pieces other than "variables", intermediate
\* pieces that meet a node of another shape, and a missing intermediate key.
SetPaths ==
    {"variables.file", "variables.files.1", "variables.a.b.2.c", "variables.fresh",
     "variables.file1", "variables.a1b",
     "variables",
     "", "file", "vars.file", "0.file",
     "variables.file.x.y", "variables.files.x.y", "variables.a.0.c", "variables.n.x.y",
     "variables.missing.x",
     "variables.files.5", "variables.files.x", "variables.a.0", "variables.file.x"}

\* The map document that sends the form field "file" to two paths in turn.
MapPair(first, second) ==
    "{\"file\":[\"" \o first \o "\",\"" \o second \o "\"]}"

\* Paths set is given twice for one value: leaves that hold null, a number or a
\* container, an element of a list, a new key, and paths set does not place at.
TwicePaths ==
    {"variables.file", "variables.n", "variables.a", "variables.files.1",
     "variables.a.b.2.c", "variables.fresh", "variables", "file", "variables.file1"}

\* Pairs of paths of one field: a path twice, and a path set places at followed
\* by one it does not.
PairPaths ==
    {<<q, q>> : q \in TwicePaths}
    \cup {<<"variables.file", q>> : q \in {"file", "variables.file.x.y", "variables.files.5"}}

\* bodies of application/json requests, and values of the variables form field
BodyQuery == "{\"query\":\"q\",\"operationName\":\"op\",\"variables\":{\"value\":5}}"
BodyMarkers == "{\"query\":\"q\",\"operations\":\"{}\",\"map\":\"{}\"}"
BodyMalformed == "{\"query\":\"q\""
BodyBadType == "{\"query\":\"q\",\"variables\":5}"
VarsValue == "{\"value\":5}"
VarsMalformed == "{\"value\""

SyntaxError == [t |-> "syntaxerror"]

\* The value a JSON text denotes (what encoding/json reads into an interface{}),
\* or SyntaxError for a text that is not JSON.
ParseJSON(text) ==
    CASE text = OpsSkeleton ->
            Obj([k \in {"query", "operationName", "variables"} |->
                CASE k = "query" -> Str("m")
                  [] k = "operationName" -> Str("up")
                  [] k = "variables" ->
                        Obj([j \in {"file", "value", "files", "input", "file1"} |->
                            CASE j = "file" -> Null
                              [] j = "value" -> Num(10)
                              [] j = "files" -> List(<<Null, Null>>)
                              [] j = "input" -> Obj([i \in {"file"} |-> Null])
                              [] j = "file1" -> Null])])
      [] text = OpsSingle ->
            Obj([k \in {"query", "operationName", "variables"} |->
                CASE k = "query" -> Str("m")
                  [] k = "operationName" -> Str("up")
                  [] k = "variables" -> Obj([j \in {"file"} |-> Null])])
      [] text = OpsNoVariables -> Obj([k \in {"query"} |-> Str("m")])
      [] text = OpsMalformed -> SyntaxError
      [] text = OpsBadType ->
            Obj([k \in {"query", "variables"} |->
                IF k = "query" THEN Str("m") ELSE List(<<Null>>)])
      [] text = OpsTree ->
            Obj([k \in {"query", "variables"} |->
                IF k = "query" THEN Str("m")
                ELSE Obj([j \in {"a", "file", "file1", "files", "n"} |->
                        CASE j = "a" ->
                                Obj([i \in {"b"} |->
                                    List(<<Null, Null,
                                           Obj([h \in {"c", "d"} |->
                                               IF h = "c" THEN Null ELSE Num(1)])>>)])
                          [] j = "file" -> Null
                          [] j = "file1" -> Null
                          [] j = "files" -> List(<<Null, Null>>)
                          [] j = "n" -> Num(1)])])
      [] text = OpsNullVariables ->
            Obj([k \in {"query", "variables"} |->
                IF k = "query" THEN Str("m") ELSE Null])
      [] text = MapSingle -> Obj([k \in {"file"} |-> List(<<Str("variables.file")>>)])
      [] text = MapMulti ->
            Obj([k \in {"0", "1"} |->
                IF k = "0" THEN List(<<Str("variables.files.0")>>)
                ELSE List(<<Str("variables.files.1")>>)])
      [] text = MapNested ->
            Obj([k \in {"file", "1"} |->
                IF k = "file" THEN List(<<Str("variables.input.file")>>)
                ELSE List(<<Str("variables.file")>>)])
      [] text = MapReuse ->
            Obj([k \in {"file"} |->
                List(<<Str("variables.file"), Str("variables.files.1")>>)])
      [] text = MapShape -> Obj([k \in {"file"} |-> List(<<Str("variables.file.x")>>)])
      [] text = MapDigitKey -> Obj([k \in {"file"} |-> List(<<Str("variables.file1")>>)])
      [] text = MapAbsent -> Obj([k \in {"nofile"} |-> List(<<Str("variables.file")>>)])
      [] text = MapValue ->
            Obj([k \in {"value", "file"} |->
                IF k = "value" THEN List(<<Str("variables.value")>>)
                ELSE List(<<Str("variables.file")>>)])
      [] text = MapTwoTexts ->
            Obj([k \in {"a", "b"} |->
                IF k = "a" THEN List(<<Str("variables.file"), Str("variables.value")>>)
                ELSE List(<<Str("variables.input.file")>>)])
      [] text = MapSamePath ->
            Obj([k \in {"a", "b"} |-> List(<<Str("variables.file")>>)])
      [] text = MapMalformed -> SyntaxError
      [] text = MapBadType -> Obj([k \in {"file"} |-> Str("variables.file")])
      [] text = BodyQuery ->
            Obj([k \in {"query", "operationName", "variables"} |->
                CASE k = "query" -> Str("q")
                  [] k = "operationName" -> Str("op")
                  [] k = "variables" -> Obj([j \in {"value"} |-> Num(5)])])
      [] text = BodyMarkers ->
            Obj([k \in {"query", "operations", "map"} |->
                IF k = "query" THEN Str("q") ELSE Str("{}")])
      [] text = BodyMalformed -> SyntaxError
      [] text = BodyBadType ->
            Obj([k \in {"query", "variables"} |->
                IF k = "query" THEN Str("q") ELSE Num(5)])
      [] text = VarsValue -> Obj([j \in {"value"} |-> Num(5)])
      [] text = VarsMalformed -> SyntaxError
      [] text \in {MapFor(p) : p \in SetPaths} ->
            Obj([k \in {"file"} |->
                List(<<Str(CHOOSE p \in SetPaths : MapFor(p) = text)>>)])
      [] text \in {MapPair(pq[1], pq[2]) : pq \in PairPaths} ->
            Obj([k \in {"file"} |->
                LET pq == CHOOSE pq \in PairPaths : MapPair(pq[1], pq[2]) = text
                IN  List(<<Str(pq[1]), Str(pq[2])>>)])

\* The zero value of GraphQLRequestParams.
ZeroParams == [RequestString |-> "", VariableValues |-> NilMap, OperationName |-> ""]

\* A JSON value read into a Go string field: a string is stored, null leaves the
\* field alone, anything else is an UnmarshalTypeError and the field is skipped.
StringField(obj, key, old) ==
    IF key \in DOMAIN obj /\ obj[key].t = "str" THEN obj[key].s ELSE old

StringFieldFits(obj, key) == key \in DOMAIN obj => obj[key].t \in {"str", "null"}

\* A JSON value read into a map[string]interface{} field: an object becomes the
\* map, null the nil map, anything else is an UnmarshalTypeError.
MapField(obj, key, old) ==
    IF key \in DOMAIN obj /\ obj[key].t = "obj" THEN obj[key]
    ELSE IF key \in DOMAIN obj /\ obj[key].t = "null" THEN NilMap
    ELSE old

MapFieldFits(obj, key) == key \in DOMAIN obj => obj[key].t \in {"obj", "null"}

\* json.Unmarshal(text, &params) for a GraphQLRequestParams that holds `old`:
\* GraphQLRequestParams, lines 40-44 (the json tags).  A text that is not JSON
\* changes nothing; a value of the wrong type is skipped, the other fields are
\* still stored, and the error is returned at the end.
UnmarshalParams(text, old) ==
    LET tree == ParseJSON(text)
    IN  IF tree = SyntaxError THEN [err |-> "syntax", v |-> old]
        ELSE IF tree.t = "null" THEN [err |-> "nil", v |-> old]
        ELSE IF tree.t # "obj" THEN [err |-> "type", v |-> old]
        ELSE [err |-> IF /\ StringFieldFits(tree.m, "query")
                         /\ MapFieldFits(tree.m, "variables")
                         /\ StringFieldFits(tree.m, "operationName")
                      THEN "nil" ELSE "type",
              v |-> [RequestString |-> StringField(tree.m, "query", old.RequestString),
                     VariableValues |-> MapField(tree.m, "variables", old.VariableValues),
                     OperationName |->
                         StringField(tree.m, "operationName", old.OperationName)]]

\* One value of the map document read into a []string: null is the nil slice, a
\* list gives its strings (null elements stay ""), anything else does not fit.
PathList(node) ==
    IF node.t = "list"
    THEN [i \in 1..Len(node.l) |-> IF node.l[i].t = "str" THEN node.l[i].s ELSE ""]
    ELSE <<>>

PathListFits(node) ==
    \/ node.t = "null"
    \/ node.t = "list" /\ \A i \in 1..Len(node.l) : node.l[i].t \in {"str", "null"}

\* json.Unmarshal(text, &variableMap) for variableMap := map[string][]string{}
\* (Handler, lines 168-169).
UnmarshalVariableMap(text) ==
    LET tree == ParseJSON(text)
    IN  IF tree = SyntaxError THEN [err |-> "syntax", v |-> EmptyMap]
        ELSE IF tree.t = "null" THEN [err |-> "nil", v |-> EmptyMap]
        ELSE IF tree.t # "obj" THEN [err |-> "type", v |-> EmptyMap]
        ELSE [err |-> IF \A k \in DOMAIN tree.m : PathListFits(tree.m[k])
                      THEN "nil" ELSE "type",
              v |-> [k \in DOMAIN tree.m |-> PathList(tree.m[k])]]

----------------------------------------------------------------------------
(* Context providers and the context *)

GinContextKey == "GinContext"

\* context.Background() and context.WithValue: a context is the chain of its
\* (key, value) entries, oldest first; Value finds the newest entry of a key.
Background == <<>>
WithValue(ctx, key, val) == Append(ctx, [key |-> key, val |-> val])

NoValue == [t |-> "nil"]

RECURSIVE Value(_, _)
Value(ctx, key) ==
    IF Len(ctx) = 0 THEN NoValue
    ELSE IF ctx[Len(ctx)].key = key THEN ctx[Len(ctx)].val
    ELSE Value(SubSeq(ctx, 1, Len(ctx) - 1), key)

\* The *gin.Context of the request in slot c, as a context value.
GinHandle(c) == [t |-> "gin", c |-> c]

\* c.Copy(): another *gin.Context, not the one of the request.
GinCopy(c) == [t |-> "gin", c |-> 0 - c]

\* GinContextProvider(c, ctx)
GinContextProvider(c, ctx) == WithValue(ctx, GinContextKey, GinHandle(c))

\* GetGinContext(ctx): the value under GinContextKey when it is a *gin.Context,
\* nil otherwise.
GetGinContext(ctx) ==
    LET v == Value(ctx, GinContextKey)
    IN  IF v.t = "gin" THEN v ELSE NoValue

\* A ContextProviderFn is any function of c and ctx that returns a context: the
\* built-in one (which a caller may pass as well), a caller's function that adds
\* one value under one key (TestContextFunctionPOST:
\* context.WithValue(ctx, "value", 5)), one that stores a copy of c under
\* GinContextKey, or one that drops ctx and returns context.Background().
BuiltIn == [fn |-> "GinContextProvider"]
Caller(key, n) == [fn |-> "WithValue", key |-> key, val |-> Num(n)]
CopyHandle == [fn |-> "Copy"]
Fresh == [fn |-> "Background"]

Value5 == Caller("value", 5)
Value7 == Caller("value", 7)
Shadow == Caller(GinContextKey, 0)

\* provider(c, ctx)
CallProvider(provider, c, ctx) ==
    CASE provider.fn = "GinContextProvider" -> GinContextProvider(c, ctx)
      [] provider.fn = "Copy" -> WithValue(ctx, GinContextKey, GinCopy(c))
      [] provider.fn = "Background" -> Background
      [] OTHER -> WithValue(ctx, provider.key, provider.val)

\* The argument lists Handler is called with, and those New is called with.
ProviderArgs == {<<>>, <<Value5>>, <<Value7>>, <<Shadow>>}
NewArgs == {<<>>, <<Value5>>}

\* The argument lists of the providers that touch GinContextKey or the chain.
KeyArgs == {<<>>, <<Value5>>, <<Shadow>>, <<BuiltIn>>, <<CopyHandle>>, <<Fresh>>}

\* How many times Handler is called on the app (one call per route).
MaxHandlers == 2

----------------------------------------------------------------------------
(* Requests *)

NoFields == [k \in {} |-> ""]

JSONRequests ==
    {[ctype |-> "json", body |-> b, fields |-> NoFields, files |-> NoFields] :
        b \in {BodyQuery, BodyMarkers, BodyMalformed, BodyBadType}}

OperationsDocs == {OpsSkeleton, OpsSingle, OpsNoVariables, OpsMalformed, OpsBadType}
MapDocs ==
    {MapSingle, MapMulti, MapNested, MapReuse, MapShape, MapDigitKey, MapAbsent,
     MapValue, MapTwoTexts, MapMalformed, MapBadType}

\* The other parts of a multipart form: text values and files (field -> filename).
FormParts ==
    {[texts |-> NoFields,
      files |-> ("file" :> "hello.txt") @@ ("0" :> "hello.txt") @@ ("1" :> "bingo.txt")],
     [texts |-> ("value" :> "7") @@ ("a" :> "7") @@ ("b" :> "7"),
      files |-> ("file" :> "hello.txt")]}

Optional(name, texts) == {NoFields} \cup {name :> t : t \in texts}

Multipart(v, o, m, f) ==
    [ctype |-> "multipart", body |-> "",
     fields |-> ("query" :> "q") @@ v @@ o @@ m @@ f.texts,
     files |-> f.files]

\* Every combination of operations, map and form parts without a variables field;
\* with a variables field, the combinations around the test of line 155.
MultipartRequests ==
    {Multipart(NoFields, o, m, f) :
        o \in Optional("operations", OperationsDocs),
        m \in Optional("map", MapDocs),
        f \in FormParts}
    \cup
    {Multipart(v, o, m, f) :
        v \in Optional("variables", {VarsValue, VarsMalformed}),
        o \in Optional("operations", {OpsSingle}),
        m \in Optional("map", {MapSingle}),
        f \in FormParts}

Requests == JSONRequests \cup MultipartRequests

\* Uploads that reach set with one value: the form field "file" is a file part,
\* a plain text value or both, and the map sends it to one of SetPaths, or to a
\* pair of PairPaths, in the variables of one of three operations documents.
SetForms ==
    {[texts |-> NoFields, files |-> ("file" :> "hello.txt")],
     [texts |-> ("file" :> "7"), files |-> NoFields],
     [texts |-> ("file" :> "7"), files |-> ("file" :> "hello.txt")]}

SetOperations == {OpsTree, OpsNoVariables, OpsNullVariables}

SetRequests ==
    {Multipart(NoFields, "operations" :> o, "map" :> MapFor(p), f) :
        o \in SetOperations, p \in SetPaths, f \in SetForms}
    \cup
    {Multipart(NoFields, "operations" :> o, "map" :> MapPair(pq[1], pq[2]), f) :
        o \in SetOperations, pq \in PairPaths, f \in SetForms}

NoRequest == [ctype |-> "none", body |-> "", fields |-> NoFields, files |-> NoFields]

\* c.GetPostForm(key): the text value of a form field, and whether there is one.
GetPostForm(req, key) ==
    IF key \in DOMAIN req.fields THEN [value |-> req.fields[key], ok |-> TRUE]
    ELSE [value |-> "", ok |-> FALSE]

\* c.FormFile(key): the header of the file part of that name, or an error.
FormFile(c, req, key) ==
    IF key \in DOMAIN req.files
    THEN [fileHeader |-> [t |-> "file", c |-> c, field |-> key, name |-> req.files[key]],
          err |-> "nil"]
    ELSE [fileHeader |-> Null, err |-> "http: no such file"]

ZeroRequest ==
    [RequestString |-> "", VariableValues |-> NilMap, OperationName |-> "",
     OperationsString |-> "", MapString |-> ""]

FormString(req, key) == IF key \in DOMAIN req.fields THEN req.fields[key] ELSE ""

\* c.ShouldBind(&graphqlRequest) (Handler, line 150) on the struct GraphQLRequest,
\* lines 47-51.  An application/json body is read with the json tags: operations
\* and map are tagged "-" and never read.  A form is read field by field in the
\* order of the struct, the variables text through json.Unmarshal, and the first
\* error ends the binding with the later fields unset.
ShouldBind(req) ==
    IF req.ctype = "json"
    THEN LET r == UnmarshalParams(req.body, ZeroParams)
         IN  [err |-> r.err,
              v |-> [ZeroRequest EXCEPT !.RequestString = r.v.RequestString,
                                        !.VariableValues = r.v.VariableValues,
                                        !.OperationName = r.v.OperationName]]
    ELSE LET query == [ZeroRequest EXCEPT !.RequestString = FormString(req, "query")]
             tree == ParseJSON(req.fields["variables"])
         IN  IF "variables" \in DOMAIN req.fields /\ tree = SyntaxError
             THEN [err |-> "syntax", v |-> query]
             ELSE IF "variables" \in DOMAIN req.fields /\ tree.t \notin {"obj", "null"}
             THEN [err |-> "type", v |-> query]
             ELSE [err |-> "nil",
                   v |-> [query EXCEPT
                            !.VariableValues =
                                IF "variables" \in DOMAIN req.fields /\ tree.t = "obj"
                                THEN tree ELSE NilMap,
                            !.OperationName = FormString(req, "operationName"),
                            !.OperationsString = FormString(req, "operations"),
                            !.MapString = FormString(req, "map")]]

----------------------------------------------------------------------------
(* The response writer of c *)

StatusOK == 200
StatusInternalServerError == 500

\* A fresh gin response writer: status 200, nothing written.
NewResponse == [status |-> StatusOK, written |-> FALSE, aborted |-> FALSE, body |-> <<>>]

\* c.AbortWithError(code, err): sets the status, writes the header at once and
\* marks the context aborted.  It does not end the calling function.
AbortWithError(resp, code) ==
    [resp EXCEPT !.status = IF resp.written THEN @ ELSE code,
                 !.written = TRUE,
                 !.aborted = TRUE]

\* c.JSON(code, obj): sets the status unless the header is already written, then
\* writes the header and the body.
JSON(resp, code, obj) ==
    [resp EXCEPT !.status = IF resp.written THEN @ ELSE code,
                 !.written = TRUE,
                 !.body = Append(@, obj)]

\* graphqlErrorReply(message, err)
graphqlErrorReply(message, err) ==
    [errors |-> <<[message |-> message \o " (" \o err \o ")"]>>]

\* graphql.Do(params): the engine is outside the package; its result is known
\* only as the result of these params.
Do(params) == [data |-> params]

----------------------------------------------------------------------------
(* The application and the request closure *)

NoApp == [made |-> FALSE, ContextProviders |-> <<>>]

NewFrame ==
    [pc |-> "idle",
     graphqlRequest |-> ZeroRequest,
     bindErr |-> "nil",
     graphqlOperations |-> ZeroParams,
     variableMap |-> EmptyMap,      \* field name -> paths
     todo |-> {},                   \* keys of variableMap the range has not reached
     variables |-> EmptyMap,        \* text value -> paths
     uploads |-> EmptyMap,          \* file header -> paths
     varsTodo |-> {},               \* keys of variables the range has not reached
     uploadsTodo |-> {},            \* keys of uploads the range has not reached
     before |-> 0,                  \* Handler calls that returned before this call began
     providers |-> <<>>,            \* the list the range of line 232 walks
     ctx |-> Background,
     i |-> 0,                       \* providers called so far
     result |-> Null]

NewLog ==
    [providers |-> <<>>,    \* the providers called, in order
     ranged |-> <<>>,       \* the list the provider loop was started on
     engine |-> <<>>,       \* the params of every graphql.Do call
     probes |-> <<>>,       \* the form fields looked up for the map, in order
     sets |-> <<>>,         \* every call of set: value, path, outcome
     upload |-> FALSE]      \* the upload branch (line 155) was entered

Slots == {1}

Init ==
    /\ app = NoApp
    /\ handlers = <<>>
    /\ request = [c \in Slots |-> NoRequest]
    /\ frame = [c \in Slots |-> NewFrame]
    /\ response = [c \in Slots |-> NewResponse]
    /\ log = [c \in Slots |-> NewLog]

\* The arguments of a sequence of calls, one after the other.
RECURSIVE Flatten(_)
Flatten(seqs) == IF Len(seqs) = 0 THEN <<>> ELSE Head(seqs) \o Flatten(Tail(seqs))

\* The provider list as it was when the first k Handler calls had returned:
\* line 145 only appends, so it is the list of now without what the later
\* calls added.
Held(k) ==
    SubSeq(app.ContextProviders, 1,
           Len(app.ContextProviders)
               - Len(Flatten(SubSeq(handlers, k + 1, Len(handlers)))))

\* New without the built-in provider at the head of the list.
NewWithoutBuiltIn(contextProviders) ==
    /\ ~app.made
    /\ app' = [made |-> TRUE, ContextProviders |-> contextProviders]
    /\ UNCHANGED <<handlers, request, frame, response, log>>

\* New(schema, contextProviders...)
New(contextProviders) ==
    /\ ~app.made
    /\ app' = [made |-> TRUE,
               ContextProviders |-> <<BuiltIn>> \o contextProviders]
    /\ UNCHANGED <<handlers, request, frame, response, log>>

\* app.Handler(contextProviders...), line 145: the providers are appended to the
\* list of the app; the closure it returns keeps only the app.  Nothing keeps
\* the call from running while closures of earlier calls serve requests.
Handler(contextProviders) ==
    /\ app.made
    /\ Len(handlers) < MaxHandlers
    /\ app' = [app EXCEPT !.ContextProviders = @ \o contextProviders]
    /\ handlers' = Append(handlers, contextProviders)
    /\ UNCHANGED <<request, frame, response, log>>

\* gin calls the closure with a fresh c for a request on a registered route.
Receive(c, req) ==
    /\ Len(handlers) > 0
    /\ frame[c].pc = "idle"
    /\ request' = [request EXCEPT ![c] = req]
    /\ frame' = [frame EXCEPT ![c] = [NewFrame EXCEPT !.pc = "bind",
                                                      !.before = Len(handlers)]]
    /\ response' = [response EXCEPT ![c] = NewResponse]
    /\ log' = [log EXCEPT ![c] = NewLog]
    /\ UNCHANGED <<app, handlers>>

\* Lines 149-155: bind; on an error AbortWithError, and the function goes on.
\* Then the test of line 155 chooses the upload branch or the context.
UploadMarkersEither(graphqlRequest) ==
    Len(graphqlRequest.MapString) > 0 \/ Len(graphqlRequest.OperationsString) > 0

UploadMarkers(graphqlRequest) ==
    Len(graphqlRequest.MapString) > 0 /\ Len(graphqlRequest.OperationsString) > 0

Bind(c) ==
    /\ frame[c].pc = "bind"
    /\ LET b == ShouldBind(request[c])
       IN  /\ frame' = [frame EXCEPT ![c].graphqlRequest = b.v,
                                     ![c].bindErr = b.err,
                                     ![c].pc = IF UploadMarkers(b.v) THEN "operations"
                                               ELSE "range"]
           /\ response' = [response EXCEPT ![c] =
                             IF b.err # "nil"
                             THEN AbortWithError(@, StatusInternalServerError)
                             ELSE @]
           /\ log' = [log EXCEPT ![c].upload = UploadMarkers(b.v)]
    /\ UNCHANGED <<app, handlers, request>>

\* Lines 156-165
UnmarshalOperations(c) ==
    /\ frame[c].pc = "operations"
    /\ LET r == UnmarshalParams(frame[c].graphqlRequest.OperationsString, ZeroParams)
       IN  IF r.err # "nil"
           THEN /\ response' = [response EXCEPT ![c] =
                      JSON(@, StatusOK, graphqlErrorReply("invalid operations string", r.err))]
                /\ frame' = [frame EXCEPT ![c].pc = "done"]
           ELSE /\ frame' = [frame EXCEPT ![c].graphqlOperations = r.v, ![c].pc = "map"]
                /\ UNCHANGED response
    /\ UNCHANGED <<app, handlers, request, log>>

\* UnmarshalMap without the return after the error reply.
UnmarshalMapGoesOn(c) ==
    /\ frame[c].pc = "map"
    /\ LET r == UnmarshalVariableMap(frame[c].graphqlRequest.MapString)
       IN  /\ response' = [response EXCEPT ![c] =
                  IF r.err # "nil"
                  THEN JSON(@, StatusOK, graphqlErrorReply("invalid map string", r.err))
                  ELSE @]
           /\ frame' = [frame EXCEPT ![c].variableMap = r.v,
                                     ![c].todo = DOMAIN r.v,
                                     ![c].pc = "collect"]
    /\ UNCHANGED <<app, handlers, request, log>>

\* Lines 167-176
UnmarshalMap(c) ==
    /\ frame[c].pc = "map"
    /\ LET r == UnmarshalVariableMap(frame[c].graphqlRequest.MapString)
       IN  IF r.err # "nil"
           THEN /\ response' = [response EXCEPT ![c] =
                      JSON(@, StatusOK, graphqlErrorReply("invalid map string", r.err))]
                /\ frame' = [frame EXCEPT ![c].pc = "done"]
           ELSE /\ frame' = [frame EXCEPT ![c].variableMap = r.v,
                                          ![c].todo = DOMAIN r.v,
                                          ![c].pc = "collect"]
                /\ UNCHANGED response
    /\ UNCHANGED <<app, handlers, request, log>>

\* Collect with the probes in the other order: the file part first, the text
\* value only when there is no file of that name.
CollectFileFirst(c, key) ==
    /\ frame[c].pc = "collect"
    /\ key \in frame[c].todo
    /\ LET path == frame[c].variableMap[key]
           form == GetPostForm(request[c], key)
           file == FormFile(c, request[c], key)
       IN  IF file.err = "nil"
           THEN /\ frame' = [frame EXCEPT ![c].uploads = MapPut(@, file.fileHeader, path),
                                          ![c].todo = @ \ {key}]
                /\ UNCHANGED response
           ELSE IF form.ok
           THEN /\ frame' = [frame EXCEPT ![c].variables = MapPut(@, form.value, path),
                                          ![c].todo = @ \ {key}]
                /\ UNCHANGED response
           ELSE /\ response' = [response EXCEPT ![c] =
                      JSON(@, StatusOK, graphqlErrorReply("invalid file upload", file.err))]
                /\ frame' = [frame EXCEPT ![c].pc = "done"]
    /\ log' = [log EXCEPT ![c].probes = Append(@, key)]
    /\ UNCHANGED <<app, handlers, request>>

\* Collect with the error of c.FormFile dropped: a field without a file is skipped.
CollectIgnoringAbsent(c, key) ==
    /\ frame[c].pc = "collect"
    /\ key \in frame[c].todo
    /\ LET path == frame[c].variableMap[key]
           form == GetPostForm(request[c], key)
           file == FormFile(c, request[c], key)
       IN  frame' = [frame EXCEPT
               ![c].variables = IF form.ok THEN MapPut(@, form.value, path) ELSE @,
               ![c].uploads = IF ~form.ok /\ file.err = "nil"
                              THEN MapPut(@, file.fileHeader, path) ELSE @,
               ![c].todo = @ \ {key}]
    /\ log' = [log EXCEPT ![c].probes = Append(@, key)]
    /\ UNCHANGED <<app, handlers, request, response>>

\* Lines 181-196, one turn of the range over variableMap.  The order of a range
\* over a Go map is not defined: any key not yet reached may come next.
Collect(c, key) ==
    /\ frame[c].pc = "collect"
    /\ key \in frame[c].todo
    /\ LET path == frame[c].variableMap[key]
           form == GetPostForm(request[c], key)
           file == FormFile(c, request[c], key)
       IN  IF form.ok
           THEN /\ frame' = [frame EXCEPT ![c].variables = MapPut(@, form.value, path),
                                          ![c].todo = @ \ {key}]
                /\ UNCHANGED response
           ELSE IF file.err # "nil"
           THEN /\ response' = [response EXCEPT ![c] =
                      JSON(@, StatusOK, graphqlErrorReply("invalid file upload", file.err))]
                /\ frame' = [frame EXCEPT ![c].pc = "done"]
           ELSE /\ frame' = [frame EXCEPT ![c].uploads = MapPut(@, file.fileHeader, path),
                                          ![c].todo = @ \ {key}]
                /\ UNCHANGED response
    /\ log' = [log EXCEPT ![c].probes = Append(@, key)]
    /\ UNCHANGED <<app, handlers, request>>

\* Lines 198-201, after the range over variableMap has ended.
UpdateRequest(c) ==
    /\ frame[c].pc = "collect"
    /\ frame[c].todo = {}
    /\ frame' = [frame EXCEPT
           ![c].graphqlRequest.RequestString = frame[c].graphqlOperations.RequestString,
           ![c].graphqlRequest.OperationName = frame[c].graphqlOperations.OperationName,
           ![c].graphqlRequest.VariableValues = frame[c].graphqlOperations.VariableValues,
           ![c].varsTodo = DOMAIN frame[c].variables,
           ![c].uploadsTodo = DOMAIN frame[c].uploads,
           ![c].pc = IF DOMAIN frame[c].variables = {} /\ DOMAIN frame[c].uploads = {}
                     THEN "range" ELSE "place"]
    /\ UNCHANGED <<app, handlers, request, response, log>>

\* The inner loops of lines 205-213 and 218-226: set for each path in turn, up
\* to the first call that does not return nil.
RECURSIVE SetAll(_, _, _)
SetAll(v, m, paths) ==
    IF Len(paths) = 0 THEN [kind |-> "ok", m |-> m, err |-> "nil", calls |-> <<>>]
    ELSE LET r == set(v, m, Head(paths))
             call == [v |-> v, path |-> Head(paths), kind |-> r.kind]
         IN  IF r.kind # "ok"
             THEN [kind |-> r.kind, m |-> r.m, err |-> r.err, calls |-> <<call>>]
             ELSE LET rest == SetAll(v, r.m, Tail(paths))
                  IN  [rest EXCEPT !.calls = <<call>> \o @]

\* Placed without the return after the error reply: the function goes on to the
\* next entry, or to the context, with what has been placed so far.
PlacedGoesOn(c, r, varsLeft, uploadsLeft) ==
    /\ frame' = [frame EXCEPT
           ![c].graphqlRequest.VariableValues = r.m,
           ![c].graphqlOperations.VariableValues = r.m,
           ![c].varsTodo = varsLeft,
           ![c].uploadsTodo = uploadsLeft,
           ![c].pc = CASE r.kind = "panic" -> "panic"
                       [] OTHER -> IF varsLeft = {} /\ uploadsLeft = {}
                                   THEN "range" ELSE "place"]
    /\ response' = [response EXCEPT ![c] =
           IF r.kind = "error"
           THEN JSON(@, StatusOK, graphqlErrorReply("could not set variable", r.err))
           ELSE @]
    /\ log' = [log EXCEPT ![c].sets = @ \o r.calls]

\* Placed with one variables object for all requests: the write of one request
\* is seen in the variables of every request in flight.
PlacedShared(c, r, varsLeft, uploadsLeft) ==
    /\ frame' = [d \in DOMAIN frame |->
           IF d = c
           THEN [frame[d] EXCEPT
                   !.graphqlRequest.VariableValues = r.m,
                   !.graphqlOperations.VariableValues = r.m,
                   !.varsTodo = varsLeft,
                   !.uploadsTodo = uploadsLeft,
                   !.pc = CASE r.kind = "error" -> "done"
                            [] r.kind = "panic" -> "panic"
                            [] OTHER -> IF varsLeft = {} /\ uploadsLeft = {}
                                        THEN "range" ELSE "place"]
           ELSE [frame[d] EXCEPT !.graphqlRequest.VariableValues = r.m]]
    /\ response' = [response EXCEPT ![c] =
           IF r.kind = "error"
           THEN JSON(@, StatusOK, graphqlErrorReply("could not set variable", r.err))
           ELSE @]
    /\ log' = [log EXCEPT ![c].sets = @ \o r.calls]

\* What one turn of either placement loop does with the outcome of its set calls:
\* an error is answered with a reply and ends the function, a panic unwinds it.
\* set writes into the map that line 201 made the VariableValues of the request
\* and that is still the VariableValues of the operations: both see the write.
Placed(c, r, varsLeft, uploadsLeft) ==
    /\ frame' = [frame EXCEPT
           ![c].graphqlRequest.VariableValues = r.m,
           ![c].graphqlOperations.VariableValues = r.m,
           ![c].varsTodo = varsLeft,
           ![c].uploadsTodo = uploadsLeft,
           ![c].pc = CASE r.kind = "error" -> "done"
                       [] r.kind = "panic" -> "panic"
                       [] OTHER -> IF varsLeft = {} /\ uploadsLeft = {}
                                   THEN "range" ELSE "place"]
    /\ response' = [response EXCEPT ![c] =
           IF r.kind = "error"
           THEN JSON(@, StatusOK, graphqlErrorReply("could not set variable", r.err))
           ELSE @]
    /\ log' = [log EXCEPT ![c].sets = @ \o r.calls]

\* Lines 204-214, one turn of the range over variables
SetVariable(c, value) ==
    /\ frame[c].pc = "place"
    /\ value \in frame[c].varsTodo
    /\ Placed(c,
              SetAll(Str(value), frame[c].graphqlRequest.VariableValues,
                     frame[c].variables[value]),
              frame[c].varsTodo \ {value}, frame[c].uploadsTodo)
    /\ UNCHANGED <<app, handlers, request>>

\* Lines 217-227, one turn of the range over uploads
SetUpload(c, file) ==
    /\ frame[c].pc = "place"
    /\ frame[c].varsTodo = {}
    /\ file \in frame[c].uploadsTodo
    /\ Placed(c,
              SetAll(file, frame[c].graphqlRequest.VariableValues,
                     frame[c].uploads[file]),
              frame[c].varsTodo, frame[c].uploadsTodo \ {file})
    /\ UNCHANGED <<app, handlers, request>>

\* What the read of app.ContextProviders at line 232 can give.  The writes of
\* line 145 made since this call of the closure began are not ordered with the
\* read: it gives the list as any of them left it, or as it was before them,
\* or, when they changed the list, a slice header made of parts of two of them.
RangeReads(c) ==
    {[kind |-> "list", list |-> Held(k)] : k \in frame[c].before..Len(handlers)}
    \cup (IF Held(frame[c].before) # app.ContextProviders
          THEN {[kind |-> "torn", list |-> <<>>]}
          ELSE {})

\* Line 232, the range expression: app.ContextProviders is evaluated once,
\* before the first turn of the loop.  A loop over a torn slice header reads
\* past the providers that are there and the call of what it finds panics.
Range(c) ==
    /\ frame[c].pc = "range"
    /\ \E r \in RangeReads(c) :
          IF r.kind = "torn"
          THEN /\ frame' = [frame EXCEPT ![c].pc = "panic"]
               /\ UNCHANGED log
          ELSE /\ frame' = [frame EXCEPT ![c].providers = r.list,
                                         ![c].i = 0,
                                         ![c].pc = "context"]
               /\ log' = [log EXCEPT ![c].ranged = r.list]
    /\ UNCHANGED <<app, handlers, request, response>>

\* Provide with the list walked from its end.
ProvideReversed(c) ==
    /\ frame[c].pc = "context"
    /\ frame[c].i < Len(frame[c].providers)
    /\ LET provider == frame[c].providers[Len(frame[c].providers) - frame[c].i]
       IN  /\ frame' = [frame EXCEPT ![c].ctx = CallProvider(provider, c, @),
                                     ![c].i = @ + 1]
           /\ log' = [log EXCEPT ![c].providers = Append(@, provider)]
    /\ UNCHANGED <<app, handlers, request, response>>

\* Lines 232-234, one turn of the loop over the list the range evaluated
Provide(c) ==
    /\ frame[c].pc = "context"
    /\ frame[c].i < Len(frame[c].providers)
    /\ LET provider == frame[c].providers[frame[c].i + 1]
       IN  /\ frame' = [frame EXCEPT ![c].ctx = CallProvider(provider, c, @),
                                     ![c].i = @ + 1]
           /\ log' = [log EXCEPT ![c].providers = Append(@, provider)]
    /\ UNCHANGED <<app, handlers, request, response>>

\* Lines 236-246
Params(c) ==
    [RequestString |-> frame[c].graphqlRequest.RequestString,
     OperationName |-> frame[c].graphqlRequest.OperationName,
     VariableValues |-> frame[c].graphqlRequest.VariableValues,
     Context |-> frame[c].ctx]

Execute(c) ==
    /\ frame[c].pc = "context"
    /\ frame[c].i = Len(frame[c].providers)
    /\ frame' = [frame EXCEPT ![c].result = Do(Params(c)), ![c].pc = "respond"]
    /\ log' = [log EXCEPT ![c].engine = Append(@, Params(c))]
    /\ UNCHANGED <<app, handlers, request, response>>

\* Lines 248-252
Respond(c) ==
    /\ frame[c].pc = "respond"
    /\ response' = [response EXCEPT ![c] = JSON(@, StatusOK, frame[c].result)]
    /\ frame' = [frame EXCEPT ![c].pc = "done"]
    /\ UNCHANGED <<app, handlers, request, log>>

\* The closure has returned or panicked; gin takes c back.
Finish(c) ==
    /\ frame[c].pc \in {"done", "panic"}
    /\ request' = [request EXCEPT ![c] = NoRequest]
    /\ frame' = [frame EXCEPT ![c] = NewFrame]
    /\ response' = [response EXCEPT ![c] = NewResponse]
    /\ log' = [log EXCEPT ![c] = NewLog]
    /\ UNCHANGED <<app, handlers>>

Next ==
    \/ \E a \in NewArgs : New(a)
    \/ \E a \in ProviderArgs : Handler(a)
    \/ \E c \in DOMAIN frame, req \in Requests : Receive(c, req)
    \/ \E c \in DOMAIN frame : Bind(c)
    \/ \E c \in DOMAIN frame : UnmarshalOperations(c)
    \/ \E c \in DOMAIN frame : UnmarshalMap(c)
    \/ \E c \in DOMAIN frame : \E key \in frame[c].todo : Collect(c, key)
    \/ \E c \in DOMAIN frame : UpdateRequest(c)
    \/ \E c \in DOMAIN frame : \E value \in frame[c].varsTodo : SetVariable(c, value)
    \/ \E c \in DOMAIN frame : \E file \in frame[c].uploadsTodo : SetUpload(c, file)
    \/ \E c \in DOMAIN frame : Range(c)
    \/ \E c \in DOMAIN frame : Provide(c)
    \/ \E c \in DOMAIN frame : Execute(c)
    \/ \E c \in DOMAIN frame : Respond(c)
    \/ \E c \in DOMAIN frame : Finish(c)

Spec == Init /\ [][Next]_vars

\* The handler on the uploads of SetRequests, on an app without caller-supplied
\* providers: every call of set is made with the value of the one mapped field.
SetNext ==
    \/ New(<<>>)
    \/ Handler(<<>>)
    \/ \E c \in DOMAIN frame, req \in SetRequests : Receive(c, req)
    \/ \E c \in DOMAIN frame : Bind(c)
    \/ \E c \in DOMAIN frame : UnmarshalOperations(c)
    \/ \E c \in DOMAIN frame : UnmarshalMap(c)
    \/ \E c \in DOMAIN frame : \E key \in frame[c].todo : Collect(c, key)
    \/ \E c \in DOMAIN frame : UpdateRequest(c)
    \/ \E c \in DOMAIN frame : \E value \in frame[c].varsTodo : SetVariable(c, value)
    \/ \E c \in DOMAIN frame : \E file \in frame[c].uploadsTodo : SetUpload(c, file)
    \/ \E c \in DOMAIN frame : Range(c)
    \/ \E c \in DOMAIN frame : Provide(c)
    \/ \E c \in DOMAIN frame : Execute(c)
    \/ \E c \in DOMAIN frame : Respond(c)
    \/ \E c \in DOMAIN frame : Finish(c)

SetSpec == Init /\ [][SetNext]_vars

\* A query in a JSON body and an upload with a text field and a file.
KeyRequests ==
    {[ctype |-> "json", body |-> BodyQuery, fields |-> NoFields, files |-> NoFields],
     Multipart(NoFields, "operations" :> OpsSkeleton, "map" :> MapValue,
               [texts |-> ("value" :> "7"), files |-> ("file" :> "bingo.txt")])}

\* The handler on an app whose caller-supplied providers may store a value or a
\* *gin.Context under GinContextKey, or return a context of their own.
KeyNext ==
    \/ \E a \in {<<>>, <<Shadow>>} : New(a)
    \/ \E a \in KeyArgs : Handler(a)
    \/ \E c \in DOMAIN frame, req \in KeyRequests : Receive(c, req)
    \/ \E c \in DOMAIN frame : Bind(c)
    \/ \E c \in DOMAIN frame : UnmarshalOperations(c)
    \/ \E c \in DOMAIN frame : UnmarshalMap(c)
    \/ \E c \in DOMAIN frame : \E key \in frame[c].todo : Collect(c, key)
    \/ \E c \in DOMAIN frame : UpdateRequest(c)
    \/ \E c \in DOMAIN frame : \E value \in frame[c].varsTodo : SetVariable(c, value)
    \/ \E c \in DOMAIN frame : \E file \in frame[c].uploadsTodo : SetUpload(c, file)
    \/ \E c \in DOMAIN frame : Range(c)
    \/ \E c \in DOMAIN frame : Provide(c)
    \/ \E c \in DOMAIN frame : Execute(c)
    \/ \E c \in DOMAIN frame : Respond(c)
    \/ \E c \in DOMAIN frame : Finish(c)

KeySpec == Init /\ [][KeyNext]_vars

\* Two requests in flight at once: gin runs the closure in the goroutine of each
\* connection, each call with its own c and its own locals; the app is shared.
\* The requests carry different files, texts and variables; one maps two text
\* fields to the same path.
TwoSlots == {1, 2}

TwoInit ==
    /\ app = NoApp
    /\ handlers = <<>>
    /\ request = [c \in TwoSlots |-> NoRequest]
    /\ frame = [c \in TwoSlots |-> NewFrame]
    /\ response = [c \in TwoSlots |-> NewResponse]
    /\ log = [c \in TwoSlots |-> NewLog]

TwoRequests ==
    {Multipart(NoFields, "operations" :> OpsSingle, "map" :> MapSingle,
               [texts |-> NoFields, files |-> ("file" :> "hello.txt")]),
     Multipart(NoFields, "operations" :> OpsSkeleton, "map" :> MapValue,
               [texts |-> ("value" :> "7"), files |-> ("file" :> "bingo.txt")]),
     Multipart(NoFields, "operations" :> OpsSingle, "map" :> MapSamePath,
               [texts |-> ("a" :> "7") @@ ("b" :> "8"), files |-> NoFields]),
     [ctype |-> "json", body |-> BodyQuery, fields |-> NoFields, files |-> NoFields]}

TwoNext ==
    \/ New(<<Value5>>)
    \/ \E a \in {<<>>, <<Value7>>} : Handler(a)
    \/ \E c \in DOMAIN frame, req \in TwoRequests : Receive(c, req)
    \/ \E c \in DOMAIN frame : Bind(c)
    \/ \E c \in DOMAIN frame : UnmarshalOperations(c)
    \/ \E c \in DOMAIN frame : UnmarshalMap(c)
    \/ \E c \in DOMAIN frame : \E key \in frame[c].todo : Collect(c, key)
    \/ \E c \in DOMAIN frame : UpdateRequest(c)
    \/ \E c \in DOMAIN frame : \E value \in frame[c].varsTodo : SetVariable(c, value)
    \/ \E c \in DOMAIN frame : \E file \in frame[c].uploadsTodo : SetUpload(c, file)
    \/ \E c \in DOMAIN frame : Range(c)
    \/ \E c \in DOMAIN frame : Provide(c)
    \/ \E c \in DOMAIN frame : Execute(c)
    \/ \E c \in DOMAIN frame : Respond(c)
    \/ \E c \in DOMAIN frame : Finish(c)

TwoSpec == TwoInit /\ [][TwoNext]_vars

----------------------------------------------------------------------------
(* What the claims speak about *)

\* The closure of slot c has ended: it returned, or it panicked.
Ended(c) == frame[c].pc \in {"done", "panic"}

\* The closure panicked in a call of set; else a panic is one of the provider
\* loop, on a list read while Handler wrote it.
SetCrashed(c) ==
    /\ frame[c].pc = "panic"
    /\ Len(log[c].sets) > 0
    /\ log[c].sets[Len(log[c].sets)].kind = "panic"

RangeCrashed(c) == frame[c].pc = "panic" /\ ~SetCrashed(c)

\* The engine has been invoked for the request of slot c.
Invoked(c) == Len(log[c].engine) > 0

\* The documents of the request of slot c as encoding/json reads them.
OperationsOf(c) == UnmarshalParams(FormString(request[c], "operations"), ZeroParams)
MapOf(c) == UnmarshalVariableMap(FormString(request[c], "map"))

\* The request of slot c is a multipart upload: both documents are form fields,
\* it was bound without error and both documents are well formed.
WellFormedUpload(c) ==
    /\ request[c].ctype = "multipart"
    /\ FormString(request[c], "operations") # ""
    /\ FormString(request[c], "map") # ""
    /\ ShouldBind(request[c]).err = "nil"
    /\ OperationsOf(c).err = "nil"
    /\ MapOf(c).err = "nil"

\* The position a path addresses, as the multipart convention reads a path: the
\* pieces after "variables", a piece of decimal digits being an index into a
\* list and any other piece the key of an object.
Missing == [t |-> "missing"]

Pieces(path) == Split(path, ".")

RECURSIVE At(_, _)
At(node, pieces) ==
    IF Len(pieces) = 0 THEN node
    ELSE LET p == Head(pieces)
         IN  IF AllDigits(p)
             THEN IF node.t = "list" /\ DecimalValue(p) < Len(node.l)
                  THEN At(node.l[DecimalValue(p) + 1], Tail(pieces))
                  ELSE Missing
             ELSE IF node.t = "obj" /\ p \in DOMAIN node.m
                  THEN At(node.m[p], Tail(pieces))
                  ELSE Missing

Position(root, path) ==
    IF Len(Pieces(path)) < 2 \/ Head(Pieces(path)) # "variables" THEN Missing
    ELSE At(root, Tail(Pieces(path)))

\* A leaf of the skeleton: a position that exists and holds no container.
IsLeaf(root, path) == Position(root, path).t \in {"null", "num", "str"}

\* Every (field, path) pair of a variable map.
Pairs(variableMap) ==
    UNION {{<<k, i>> : i \in 1..Len(variableMap[k])} : k \in DOMAIN variableMap}

PathOf(variableMap, pair) == variableMap[pair[1]][pair[2]]

\* The file header c.FormFile gives for a field of the request of slot c.
HeaderOf(c, field) == FormFile(c, request[c], field).fileHeader

----------------------------------------------------------------------------
(* C1 *)

\* The case of C1: a well-formed upload whose operations carry a variables
\* object, whose map names only file fields (no text value of the same name) and
\* sends them to pairwise distinct leaves of the skeleton.
FilesToDistinctLeaves(c) ==
    /\ WellFormedUpload(c)
    /\ OperationsOf(c).v.VariableValues.t = "obj"
    /\ DOMAIN MapOf(c).v # {}
    /\ \A k \in DOMAIN MapOf(c).v :
          /\ k \in DOMAIN request[c].files
          /\ k \notin DOMAIN request[c].fields
          /\ Len(MapOf(c).v[k]) = 1
    /\ \A pr \in Pairs(MapOf(c).v) :
          IsLeaf(OperationsOf(c).v.VariableValues, PathOf(MapOf(c).v, pr))
    /\ \A p1, p2 \in Pairs(MapOf(c).v) :
          p1 # p2 => PathOf(MapOf(c).v, p1) # PathOf(MapOf(c).v, p2)

\* C1: a multipart request whose map sends distinct file fields to distinct
\* existing leaves ends with exactly one invocation of the engine, made with the
\* query and operationName of operations and with variables in which every
\* addressed position holds the file header of its field.
C1_FilesPlacedThenInvokedOnce ==
    \A c \in DOMAIN frame :
        (Ended(c) /\ FilesToDistinctLeaves(c)) =>
            /\ frame[c].pc = "done"
            /\ Len(log[c].engine) = 1
            /\ log[c].engine[1].RequestString = OperationsOf(c).v.RequestString
            /\ log[c].engine[1].OperationName = OperationsOf(c).v.OperationName
            /\ \A pr \in Pairs(MapOf(c).v) :
                  Position(log[c].engine[1].VariableValues, PathOf(MapOf(c).v, pr))
                      = HeaderOf(c, pr[1])

----------------------------------------------------------------------------
(* C2 *)

\* The upload branch was entered and ended without an invocation of the engine.
UploadFailed(c) == log[c].upload /\ Ended(c) /\ ~Invoked(c) /\ ~RangeCrashed(c)

IsErrorReply(resp) ==
    /\ resp.status = StatusOK
    /\ Len(resp.body) = 1
    /\ DOMAIN resp.body[1] = {"errors"}
    /\ Len(resp.body[1].errors) = 1

\* C2: every failure of the upload branch is answered with status 200 and a body
\* that carries an errors array with a message; none ends as a server error
\* status or as a crash of the request.
C2_UploadFailureIsErrorReply ==
    \A c \in DOMAIN frame :
        UploadFailed(c) => frame[c].pc = "done" /\ IsErrorReply(response[c])

----------------------------------------------------------------------------
(* C3 *)

\* C3: when binding fails the handler answers with the server error status and
\* stops: no provider runs, the engine is not invoked, no result body is written.
C3_BindFailureStops ==
    \A c \in DOMAIN frame :
        (frame[c].pc # "bind" /\ frame[c].bindErr # "nil") =>
            /\ response[c].status = StatusInternalServerError
            /\ log[c].providers = <<>>
            /\ log[c].engine = <<>>
            /\ response[c].body = <<>>

----------------------------------------------------------------------------
(* C4 *)

\* Every provider given to New or to a Handler call, and how often p was called.
Registered(c) == {BuiltIn} \cup {log[c].ranged[i] : i \in 1..Len(log[c].ranged)}

Calls(c, p) == Cardinality({i \in 1..Len(log[c].providers) : log[c].providers[i] = p})

FirstCall(c, p) ==
    CHOOSE i \in 1..Len(log[c].providers) :
        /\ log[c].providers[i] = p
        /\ \A j \in 1..(i - 1) : log[c].providers[j] # p

\* C4: in a request every provider registered on the app, in the list the
\* request found, is called exactly once, the providers of New before the
\* providers of Handler, in registration order, after any sequence of New and
\* Handler calls.
C4_EachProviderOncePerRequest ==
    \A c \in DOMAIN frame :
        Invoked(c) =>
            /\ \A p \in Registered(c) : Calls(c, p) = 1
            /\ \A i \in 1..Len(Flatten(handlers)) :
                  Len(Held(0)) + i <= Len(log[c].ranged)
                      => FirstCall(c, Flatten(handlers)[i]) > Len(Held(0))

----------------------------------------------------------------------------
(* C5 *)

\* The left fold of a provider list over a context: the last provider applied to
\* the fold of the ones before it.
RECURSIVE LeftFold(_, _, _)
LeftFold(providers, c, ctx) ==
    IF Len(providers) = 0 THEN ctx
    ELSE CallProvider(providers[Len(providers)], c,
                      LeftFold(SubSeq(providers, 1, Len(providers) - 1), c, ctx))

\* The context the engine was given for the request of slot c.
EngineContext(c) == log[c].engine[1].Context

\* C5: the context the engine gets is the left fold of the provider list over the
\* empty context, the built-in provider first, the list being one the app has
\* held since the request came in: for the caller's providers
\* <<P1, P2>> it is P2(c, P1(c, GinContextProvider(c, Background))).  A value a
\* provider sets is what resolvers read under its key unless a later provider
\* sets the same key, and with two providers that set different values under
\* one key the other order gives resolvers the other value.
C5_ContextIsLeftFold ==
    \A c \in DOMAIN frame :
        Invoked(c) =>
            LET list == log[c].ranged
                caller == Tail(list)
                ctx == EngineContext(c)
            IN  /\ \E k \in frame[c].before..Len(handlers) : list = Held(k)
                /\ list[1] = BuiltIn
                /\ ctx = LeftFold(list, c, Background)
                /\ Len(caller) = 2 =>
                      ctx = CallProvider(caller[2], c,
                                CallProvider(caller[1], c,
                                    GinContextProvider(c, Background)))
                /\ \A i \in 1..Len(caller) :
                      (\A j \in (i + 1)..Len(caller) : caller[j].key # caller[i].key)
                          => Value(ctx, caller[i].key) = caller[i].val
                /\ (/\ Len(caller) = 2
                    /\ caller[1].key = caller[2].key
                    /\ caller[1].val # caller[2].val)
                      => Value(LeftFold(<<BuiltIn, caller[2], caller[1]>>, c, Background),
                               caller[1].key)
                             # Value(ctx, caller[1].key)

\* The engine was given a context in which Value7, registered after Value5, is
\* what a resolver reads under "value".
C5_Witness ==
    \E c \in DOMAIN frame :
        /\ Invoked(c)
        /\ log[c].ranged = <<BuiltIn, Value5, Value7>>
        /\ Value(EngineContext(c), "value") = Num(7)

----------------------------------------------------------------------------
(* C6 *)

\* C6 as stated: whatever providers the caller registers, the context the engine
\* gets yields the handle of the request under GinContextKey.
C6_HandleAlwaysRetrievable ==
    \A c \in DOMAIN frame :
        Invoked(c) => GetGinContext(EngineContext(c)) = GinHandle(c)

\* Every caller-supplied provider of the list the request walked returns a
\* context derived from the one it was given, and none stores a value under
\* GinContextKey.
HandleKept(c) ==
    \A i \in 2..Len(log[c].ranged) :
        /\ log[c].ranged[i].fn = "WithValue"
        /\ log[c].ranged[i].key # GinContextKey

\* C6 amended: the context the engine gets yields the handle of the same request
\* under GinContextKey when every caller-supplied provider returns a context
\* derived from its argument and none of them stores a value under that key.
C6_HandleRetrievableWhenKept ==
    \A c \in DOMAIN frame :
        (Invoked(c) /\ HandleKept(c)) =>
            GetGinContext(EngineContext(c)) = GinHandle(c)

\* The engine was invoked after a caller's provider ran that keeps the chain and
\* the key, and the handle is found.
C6_Witness ==
    \E c \in DOMAIN frame :
        /\ Invoked(c)
        /\ Len(log[c].ranged) > 1
        /\ HandleKept(c)
        /\ GetGinContext(EngineContext(c)) = GinHandle(c)

----------------------------------------------------------------------------
(* C7 *)

\* The request of slot c has both upload form fields, each with a value.
MarkersSubmitted(c) ==
    FormString(request[c], "operations") # "" /\ FormString(request[c], "map") # ""

Unreadable == [t |-> "unreadable"]

\* The variables a JSON value stands for when sent as the basic parameter.
SubmittedVariables(tree) ==
    IF tree = SyntaxError THEN Unreadable
    ELSE IF tree.t = "null" THEN NilMap
    ELSE tree

Member(tree, key, default) ==
    IF tree # SyntaxError /\ tree.t = "obj" /\ key \in DOMAIN tree.m
    THEN tree.m[key] ELSE default

\* query, operationName and variables as the request of slot c submits them: the
\* members of a JSON body, or the form fields.
Submitted(c) ==
    LET req == request[c]
        body == ParseJSON(req.body)
    IN  IF req.ctype = "json"
        THEN [RequestString |-> Member(body, "query", Str("")),
              OperationName |-> Member(body, "operationName", Str("")),
              VariableValues |-> SubmittedVariables(Member(body, "variables", Null))]
        ELSE [RequestString |-> Str(FormString(req, "query")),
              OperationName |-> Str(FormString(req, "operationName")),
              VariableValues |->
                  IF "variables" \in DOMAIN req.fields
                  THEN SubmittedVariables(ParseJSON(req.fields["variables"]))
                  ELSE NilMap]

AsSubmitted(c) ==
    /\ Str(log[c].engine[1].RequestString) = Submitted(c).RequestString
    /\ Str(log[c].engine[1].OperationName) = Submitted(c).OperationName
    /\ log[c].engine[1].VariableValues = Submitted(c).VariableValues

Bound(c) == frame[c].pc \notin {"idle", "bind"}

\* C7 as stated: the upload branch is entered exactly when both form fields are
\* submitted with a value; otherwise the engine gets query, operationName and
\* variables as submitted.
C7_UploadIffBothFields ==
    \A c \in DOMAIN frame :
        Bound(c) =>
            /\ log[c].upload <=> MarkersSubmitted(c)
            /\ (Invoked(c) /\ ~MarkersSubmitted(c)) => AsSubmitted(c)

\* C7 amended: for a request whose binding succeeds, the upload branch is entered
\* exactly when both form fields are submitted with a value; otherwise no form
\* field is looked up, set is not called and the engine gets query,
\* operationName and variables as submitted.
C7_UploadIffBothFieldsWhenBound ==
    \A c \in DOMAIN frame :
        (Bound(c) /\ frame[c].bindErr = "nil") =>
            /\ log[c].upload <=> MarkersSubmitted(c)
            /\ ~MarkersSubmitted(c) => log[c].probes = <<>> /\ log[c].sets = <<>>
            /\ (Invoked(c) /\ ~MarkersSubmitted(c)) => AsSubmitted(c)

\* The engine was invoked for a bound request that submits operations without map.
C7_Witness ==
    \E c \in DOMAIN frame :
        /\ Invoked(c)
        /\ frame[c].bindErr = "nil"
        /\ FormString(request[c], "operations") # ""
        /\ FormString(request[c], "map") = ""
        /\ ~log[c].upload

----------------------------------------------------------------------------
(* C8 *)

\* The map of a well-formed upload names a field the form has neither as a text
\* value nor as a file.
AbsentField(c) ==
    /\ WellFormedUpload(c)
    /\ \E k \in DOMAIN MapOf(c).v :
          k \notin DOMAIN request[c].fields /\ k \notin DOMAIN request[c].files

\* C8: when the map names a field absent from the form, the request ends with
\* the upload error reply; the engine is never invoked, set is never called and
\* the variables of the operations and of the request are as they were read.
C8_AbsentFieldFailsBeforePlacement ==
    \A c \in DOMAIN frame :
        (Bound(c) /\ AbsentField(c)) =>
            /\ ~Invoked(c)
            /\ log[c].sets = <<>>
            /\ frame[c].graphqlRequest.VariableValues
                  = ShouldBind(request[c]).v.VariableValues
            /\ frame[c].pc \notin {"operations", "map"}
                  => frame[c].graphqlOperations.VariableValues
                        = OperationsOf(c).v.VariableValues
            /\ frame[c].pc \notin {"place", "range", "context", "respond", "panic"}
            /\ Ended(c) =>
                  /\ response[c].status = StatusOK
                  /\ response[c].body
                        = <<graphqlErrorReply("invalid file upload", "http: no such file")>>

\* The request ended on an absent field after a file of the map was collected.
C8_Witness ==
    \E c \in DOMAIN frame :
        /\ Ended(c)
        /\ AbsentField(c)
        /\ DOMAIN frame[c].uploads # {}
        /\ Len(response[c].body) = 1

----------------------------------------------------------------------------
(* C9 *)

Malformed(text) == ParseJSON(text) = SyntaxError

\* The upload of slot c has operations that are not JSON, or readable operations
\* and a map that is not JSON.
MalformedUpload(c) ==
    /\ MarkersSubmitted(c)
    /\ ShouldBind(request[c]).err = "nil"
    /\ \/ Malformed(FormString(request[c], "operations"))
       \/ OperationsOf(c).err = "nil" /\ Malformed(FormString(request[c], "map"))

\* C9: malformed operations, and malformed map, end the request with the format
\* error reply of the document, before any form field is looked up for the map,
\* without a call of set and without an invocation of the engine.
C9_MalformedJSONShortCircuits ==
    \A c \in DOMAIN frame :
        (Bound(c) /\ MalformedUpload(c)) =>
            /\ log[c].probes = <<>>
            /\ log[c].sets = <<>>
            /\ ~Invoked(c)
            /\ frame[c].pc \in {"operations", "map", "done"}
            /\ Ended(c) =>
                  /\ response[c].status = StatusOK
                  /\ response[c].body =
                        <<graphqlErrorReply(
                            IF Malformed(FormString(request[c], "operations"))
                            THEN "invalid operations string" ELSE "invalid map string",
                            "syntax")>>

\* The request ended on a malformed map after its operations were read.
C9_Witness ==
    \E c \in DOMAIN frame :
        /\ Ended(c)
        /\ MalformedUpload(c)
        /\ ~Malformed(FormString(request[c], "operations"))
        /\ frame[c].graphqlOperations.RequestString = "m"

----------------------------------------------------------------------------
(* C10 *)

\* The value the form gives a field of the map: its text, else its file header.
FieldValue(c, field) ==
    IF field \in DOMAIN request[c].fields THEN Str(request[c].fields[field])
    ELSE HeaderOf(c, field)

\* C10: after a successful assembly, every position a field with several paths
\* is mapped to holds the value or file header of that field.
C10_ReusedFieldAtEveryPath ==
    \A c \in DOMAIN frame :
        (Invoked(c) /\ WellFormedUpload(c)) =>
            \A k \in DOMAIN MapOf(c).v :
                Len(MapOf(c).v[k]) >= 2 =>
                    \A i \in 1..Len(MapOf(c).v[k]) :
                        Position(log[c].engine[1].VariableValues, MapOf(c).v[k][i])
                            = FieldValue(c, k)

----------------------------------------------------------------------------
(* C11 *)

\* C11: after a successful assembly, every path the map lists for a field that
\* the form carries as a plain text value holds that text, however many such
\* fields there are and whatever texts they carry, equal texts included.
C11_TextFieldAtEveryPath ==
    \A c \in DOMAIN frame :
        (Invoked(c) /\ WellFormedUpload(c)) =>
            \A k \in DOMAIN MapOf(c).v :
                k \in DOMAIN request[c].fields =>
                    \A i \in 1..Len(MapOf(c).v[k]) :
                        Position(log[c].engine[1].VariableValues, MapOf(c).v[k][i])
                            = Str(request[c].fields[k])

----------------------------------------------------------------------------
(* set, as the handler calls it *)

\* The request of slot c is a well-formed upload whose map holds one field with
\* one path, and set has been called for it: the one call of set got the
\* variables of the operations as its root, and what the request holds as its
\* variables afterwards is that root after the call.
OneSet(c) ==
    /\ WellFormedUpload(c)
    /\ Cardinality(Pairs(MapOf(c).v)) = 1
    /\ Len(log[c].sets) = 1

SetCall(c) == log[c].sets[1]
RootBefore(c) == OperationsOf(c).v.VariableValues
RootAfter(c) == frame[c].graphqlRequest.VariableValues

----------------------------------------------------------------------------
(* C12 *)

\* C12: set takes a piece of the path for an index exactly when the piece
\* consists of decimal digits; any other piece, one that holds a digit such as
\* file1 or a1b included, is taken for a field name, and as the last piece
\* under the root object it addresses the key of that name.
C12_IndexIffAllDigits ==
    \A c \in DOMAIN frame :
        \A i \in 1..Len(log[c].sets) :
            LET path == log[c].sets[i].path
                pieces == Pieces(path)
                parts == PathParts(path)
            IN  /\ \A j \in 1..Len(pieces) :
                      /\ parts[j].k = "int" <=> AllDigits(pieces[j])
                      /\ ~AllDigits(pieces[j]) => parts[j] = StrPart(pieces[j])
                /\ (/\ OneSet(c)
                    /\ Len(pieces) = 2
                    /\ pieces[1] = "variables"
                    /\ ~AllDigits(pieces[2])
                    /\ RootBefore(c).t = "obj")
                      => /\ SetCall(c).kind = "ok"
                         /\ RootAfter(c).m = MapPut(RootBefore(c).m, pieces[2], SetCall(c).v)

----------------------------------------------------------------------------
(* C13 *)

\* The values held at the leaves of a variables tree.
RECURSIVE Leaves(_)
Leaves(node) ==
    IF node.t = "obj" THEN UNION {Leaves(node.m[k]) : k \in DOMAIN node.m}
    ELSE IF node.t = "list" THEN UNION {Leaves(node.l[i]) : i \in 1..Len(node.l)}
    ELSE {node}

\* What the request of slot c brings itself: the headers of its files, its text
\* values, and the leaves of the variables it submits (in the operations of an
\* upload, else as the basic parameter).
OwnValues(c) ==
    {HeaderOf(c, f) : f \in DOMAIN request[c].files}
    \cup {Str(request[c].fields[f]) : f \in DOMAIN request[c].fields}
    \cup Leaves(IF log[c].upload THEN OperationsOf(c).v.VariableValues
                ELSE ShouldBind(request[c]).v.VariableValues)

\* Everything of slot c that a step can change.
SlotState(c) == <<request[c], frame[c], response[c], log[c]>>

\* The engine call of slot c got nothing of another request: every leaf of its
\* variables is a value of its own request, every file header in them and every
\* request handle in its context is the one of slot c.
NothingForeign(c) ==
    Invoked(c) =>
        LET params == log[c].engine[1]
        IN  /\ Leaves(params.VariableValues) \subseteq OwnValues(c)
            /\ \A v \in Leaves(params.VariableValues) : v.t = "file" => v.c = c
            /\ \A i \in 1..Len(params.Context) :
                  params.Context[i].val.t = "gin" => params.Context[i].val = GinHandle(c)
            /\ params.Context = LeftFold(log[c].ranged, c, Background)

\* C13: two requests handled at once share no state.  Under every interleaving
\* the engine call of each request gets only file headers, variable values and
\* context entries of its own request, and no step of one request changes the
\* variables, the upload assignments, the context, the response or any other
\* local of the other.
C13_RequestsShareNoState ==
    /\ [](\A c \in DOMAIN frame : NothingForeign(c))
    /\ [][Cardinality({c \in DOMAIN frame : SlotState(c)' # SlotState(c)}) <= 1]_vars

\* Two different uploads are in flight at once and the engine has been invoked
\* for both, each with the file header of its own request at variables.file.
C13_Witness ==
    /\ DOMAIN frame = TwoSlots
    /\ \A c \in TwoSlots : Invoked(c) /\ frame[c].pc = "respond" /\ log[c].upload
    /\ request[1] # request[2]
    /\ \A c \in TwoSlots :
          Position(log[c].engine[1].VariableValues, "variables.file") = HeaderOf(c, "file")

----------------------------------------------------------------------------
(* C14 *)

\* C14: in a request for which the engine is invoked, the status and the headers
\* of the response are not yet written when the engine is called nor when it
\* has returned, so a header a resolver sets through the handle of the context
\* is still part of what the client receives.
C14_HeaderOpenUntilEngineReturns ==
    \A c \in DOMAIN frame :
        (frame[c].pc \in {"range", "context", "respond"}) =>
            /\ ~response[c].written
            /\ response[c].body = <<>>

----------------------------------------------------------------------------
(* C15 *)

\* The path of the one set call of slot c addresses a key directly under the root.
TopLevelKey(c) ==
    /\ Len(Pieces(SetCall(c).path)) = 2
    /\ Pieces(SetCall(c).path)[1] = "variables"

\* C15: when the operations leave variables out, or give null, and the map
\* addresses a top-level key, the call of set does not crash the request: the
\* value is placed under that key, or the request ends with an error reply.
C15_AbsentVariablesNoCrash ==
    \A c \in DOMAIN frame :
        (OneSet(c) /\ RootBefore(c) = NilMap /\ TopLevelKey(c)) =>
            /\ frame[c].pc # "panic"
            /\ SetCall(c).kind \in {"ok", "error"}
            /\ SetCall(c).kind = "ok" =>
                  Position(RootAfter(c), SetCall(c).path) = SetCall(c).v
            /\ (SetCall(c).kind = "error" /\ Ended(c)) => IsErrorReply(response[c])

----------------------------------------------------------------------------
(* C16 *)

\* C16: set rejects the path "variables", the root marker with no piece after
\* it, with an error, and the variables are as they were.
C16_RootAloneRejected ==
    \A c \in DOMAIN frame :
        (OneSet(c) /\ SetCall(c).path = "variables") =>
            /\ SetCall(c).kind = "error"
            /\ RootAfter(c) = RootBefore(c)
            /\ ~Invoked(c)

----------------------------------------------------------------------------
(* C17 *)

\* The first piece of the path of set call i of slot c is not "variables".
ForeignRoot(c, i) == Pieces(log[c].sets[i].path)[1] # "variables"

\* C17: a path whose first piece is not "variables", the empty path included,
\* makes set return an error before it writes anything: the call is the last
\* one of the request, the variables are as they were, the engine is not
\* invoked and the request ends with the reply that carries the error of set.
C17_ForeignRootRejected ==
    \A c \in DOMAIN frame :
        \A i \in 1..Len(log[c].sets) :
            ForeignRoot(c, i) =>
                /\ log[c].sets[i].kind = "error"
                /\ i = Len(log[c].sets)
                /\ OneSet(c) => RootAfter(c) = RootBefore(c)
                /\ ~Invoked(c)
                /\ frame[c].pc = "done"
                /\ response[c].status = StatusOK
                /\ response[c].body =
                      <<graphqlErrorReply("could not set variable",
                            "first part of path is supposed to be variables")>>

\* A request whose map holds the empty path has ended on the error of set, with
\* the variables tree of its operations untouched.
C17_Witness ==
    \E c \in DOMAIN frame :
        /\ OneSet(c)
        /\ SetCall(c).path = ""
        /\ SetCall(c).kind = "error"
        /\ RootBefore(c).t = "obj"
        /\ RootAfter(c) = RootBefore(c)
        /\ Len(response[c].body) = 1

----------------------------------------------------------------------------
(* C18 *)

\* Walking the pieces from node, a piece before the last one meets a node of
\* another shape than its kind asks for: a field name on anything but an object,
\* an index on anything but a list.
RECURSIVE ShapeMismatch(_, _)
ShapeMismatch(node, pieces) ==
    IF Len(pieces) <= 1 THEN FALSE
    ELSE LET p == Head(pieces)
         IN  IF AllDigits(p)
             THEN IF node.t # "list" THEN TRUE
                  ELSE IF DecimalValue(p) < Len(node.l)
                       THEN ShapeMismatch(node.l[DecimalValue(p) + 1], Tail(pieces))
                       ELSE FALSE
             ELSE IF node.t # "obj" THEN TRUE
                  ELSE IF p \in DOMAIN node.m
                       THEN ShapeMismatch(node.m[p], Tail(pieces))
                       ELSE FALSE

\* C18: when an intermediate piece of the path meets a node whose shape does not
\* match its kind, set returns an error as a value and leaves the variables
\* unchanged; the request does not crash.
C18_ShapeMismatchIsError ==
    \A c \in DOMAIN frame :
        (/\ OneSet(c)
         /\ RootBefore(c).t = "obj"
         /\ Pieces(SetCall(c).path)[1] = "variables"
         /\ ShapeMismatch(RootBefore(c), Tail(Pieces(SetCall(c).path)))) =>
            /\ SetCall(c).kind = "error"
            /\ frame[c].pc # "panic"
            /\ RootAfter(c) = RootBefore(c)

----------------------------------------------------------------------------
(* C19 *)

\* The path of the one set call of slot c goes through a key that the root
\* object does not have.
MissingIntermediate(c) ==
    LET pieces == Pieces(SetCall(c).path)
    IN  /\ Len(pieces) = 3
        /\ pieces[1] = "variables"
        /\ ~MatchDigits(pieces[2]) /\ ~MatchDigits(pieces[3])
        /\ RootBefore(c).t = "obj"
        /\ pieces[2] \notin DOMAIN RootBefore(c).m

\* C19: when an intermediate piece addresses a container that does not exist
\* under the root, set creates it and places the value at the addressed leaf.
C19_MissingContainerCreated ==
    \A c \in DOMAIN frame :
        (OneSet(c) /\ MissingIntermediate(c)) =>
            /\ SetCall(c).kind = "ok"
            /\ Position(RootAfter(c), SetCall(c).path) = SetCall(c).v

----------------------------------------------------------------------------
(* C20 *)

\* The pieces lead from node to a leaf position through containers that exist
\* and match: an index meets a list that has it, a field name meets an object
\* (which, before the last piece, has that key).
RECURSIVE Walkable(_, _)
Walkable(node, pieces) ==
    LET p == Head(pieces)
        last == Len(pieces) = 1
    IN  IF AllDigits(p)
        THEN /\ node.t = "list"
             /\ DecimalValue(p) < Len(node.l)
             /\ last \/ Walkable(node.l[DecimalValue(p) + 1], Tail(pieces))
        ELSE /\ node.t = "obj"
             /\ last \/ (p \in DOMAIN node.m /\ Walkable(node.m[p], Tail(pieces)))

\* The piece that addresses element i (counted from 0) of a list.
IndexPiece(i) == CHOOSE d \in Digits : DigitValue(d) = i

\* Every position of a tree, as the pieces that lead to it from its root.
RECURSIVE Positions(_)
Positions(node) ==
    {<<>>} \cup
    (IF node.t = "obj"
     THEN UNION {{<<k>> \o q : q \in Positions(node.m[k])} : k \in DOMAIN node.m}
     ELSE IF node.t = "list"
     THEN UNION {{<<IndexPiece(i - 1)>> \o q : q \in Positions(node.l[i])} :
                    i \in 1..Len(node.l)}
     ELSE {})

IsPrefix(a, b) == Len(a) <= Len(b) /\ SubSeq(b, 1, Len(a)) = a

\* The one set call of slot c returned nil for a path of at least one piece
\* after "variables" whose containers exist with matching shapes.
ValidSet(c) ==
    /\ OneSet(c)
    /\ SetCall(c).kind = "ok"
    /\ Len(Pieces(SetCall(c).path)) >= 2
    /\ Pieces(SetCall(c).path)[1] = "variables"
    /\ Walkable(RootBefore(c), Tail(Pieces(SetCall(c).path)))

\* C20: a successful set on a valid path whose containers exist with matching
\* shapes changes the addressed leaf and nothing else: the leaf holds the value
\* (variables.a.b.2.c writes root["a"]["b"][2]["c"]), every other position of
\* the tree, siblings and variables the map does not name included, is as it
\* was, no other position appears, and the engine gets that tree.
C20_OnlyAddressedLeafChanges ==
    \A c \in DOMAIN frame :
        ValidSet(c) =>
            LET target == Tail(Pieces(SetCall(c).path))
                before == RootBefore(c)
                after == RootAfter(c)
            IN  /\ At(after, target) = SetCall(c).v
                /\ \A q \in Positions(before) \cup Positions(after) :
                      (~IsPrefix(q, target) /\ ~IsPrefix(target, q))
                          => At(after, q) = At(before, q)
                /\ \A q \in Positions(before) :
                      IsPrefix(q, target) /\ q # target => At(after, q).t = At(before, q).t
                /\ Invoked(c) => log[c].engine[1].VariableValues = after

\* The engine was invoked after set placed the value at variables.a.b.2.c, next
\* to the sibling d, which still holds 1.
C20_Witness ==
    \E c \in DOMAIN frame :
        /\ ValidSet(c)
        /\ Invoked(c)
        /\ SetCall(c).path = "variables.a.b.2.c"
        /\ At(RootAfter(c), <<"a", "b", "2", "c">>) = SetCall(c).v
        /\ At(RootAfter(c), <<"a", "b", "2", "d">>) = Num(1)
        /\ At(RootBefore(c), <<"a", "b", "2", "c">>) = Null

----------------------------------------------------------------------------
(* C21 *)

\* The map of the upload of slot c sends its one field to the same path twice.
SamePathTwice(c) ==
    /\ WellFormedUpload(c)
    /\ DOMAIN MapOf(c).v = {"file"}
    /\ Len(MapOf(c).v["file"]) = 2
    /\ MapOf(c).v["file"][1] = MapOf(c).v["file"][2]

\* C21: set is idempotent.  After set has placed one value at one path twice,
\* the variables are what one call of set makes of them, whatever the position
\* held before: the second call returns what the first returned and changes
\* nothing.
C21_SetIdempotent ==
    \A c \in DOMAIN frame :
        (SamePathTwice(c) /\ Len(log[c].sets) = 2) =>
            LET first == log[c].sets[1]
                once == set(first.v, RootBefore(c), first.path)
            IN  /\ log[c].sets[2] = first
                /\ first.kind = "ok"
                /\ once.kind = "ok"
                /\ RootAfter(c) = once.m
                /\ set(first.v, once.m, first.path).m = once.m

\* set has placed a text twice at variables.n, which held the number 1 before,
\* and the engine was invoked with the text there.
C21_Witness ==
    \E c \in DOMAIN frame :
        /\ SamePathTwice(c)
        /\ Len(log[c].sets) = 2
        /\ log[c].sets[1].path = "variables.n"
        /\ Position(RootBefore(c), "variables.n") = Num(1)
        /\ Invoked(c)
        /\ Position(log[c].engine[1].VariableValues, "variables.n") = Str("7")

----------------------------------------------------------------------------
(* C22 *)

\* The fields of the map that the collect loop of slot c has looked up.
Probed(c) == {log[c].probes[i] : i \in 1..Len(log[c].probes)}

\* The values set has been called with for slot c.
ValuesSet(c) == {log[c].sets[i].v : i \in 1..Len(log[c].sets)}

\* No other text field of the map carries the text of field k.
TextUnshared(c, k) ==
    \A j \in DOMAIN MapOf(c).v \ {k} :
        j \in DOMAIN request[c].fields => request[c].fields[j] # request[c].fields[k]

\* C22: a field of the map is looked up as a plain text value first.  With a
\* text value of its name it is a plain assignment of that text to its paths,
\* also when a file part of the same name is submitted, and the file header is
\* never placed; only without a text value is the file part looked up, and the
\* field is a file assignment of the file header to its paths.
C22_TextProbedBeforeFile ==
    \A c \in DOMAIN frame :
        WellFormedUpload(c) =>
            /\ \A k \in Probed(c) :
                  IF k \in DOMAIN request[c].fields
                  THEN /\ request[c].fields[k] \in DOMAIN frame[c].variables
                       /\ TextUnshared(c, k) =>
                             frame[c].variables[request[c].fields[k]] = MapOf(c).v[k]
                       /\ \A h \in DOMAIN frame[c].uploads : h.field # k
                  ELSE IF k \in DOMAIN request[c].files
                  THEN /\ HeaderOf(c, k) \in DOMAIN frame[c].uploads
                       /\ frame[c].uploads[HeaderOf(c, k)] = MapOf(c).v[k]
                  ELSE /\ frame[c].pc = "done"
                       /\ \A h \in DOMAIN frame[c].uploads : h.field # k
            /\ \A v \in ValuesSet(c) :
                  \E k \in DOMAIN MapOf(c).v : v = FieldValue(c, k)

\* The form carries "file" both as a text value and as a file part, and the
\* engine was invoked with the text at variables.file.
C22_Witness ==
    \E c \in DOMAIN frame :
        /\ WellFormedUpload(c)
        /\ "file" \in DOMAIN request[c].fields
        /\ "file" \in DOMAIN request[c].files
        /\ Invoked(c)
        /\ Position(log[c].engine[1].VariableValues, "variables.file")
              = Str(request[c].fields["file"])
        /\ DOMAIN frame[c].uploads = {}

----------------------------------------------------------------------------
(* C23 *)

\* A call of set for slot c did not return nil after an earlier call had.
FailedAfterSuccess(c) ==
    \E i \in 1..Len(log[c].sets) :
        /\ log[c].sets[i].kind # "ok"
        /\ \E j \in 1..(i - 1) : log[c].sets[j].kind = "ok"

\* C23: when a placement fails after earlier placements of the request have
\* succeeded, assembly ends there and the partly filled variables are dropped
\* with the locals of the call: the engine is not invoked for the request, no
\* further call of set is made, and the only body written is the error reply.
C23_PartialVariablesDiscarded ==
    \A c \in DOMAIN frame :
        FailedAfterSuccess(c) =>
            /\ ~Invoked(c)
            /\ log[c].providers = <<>>
            /\ frame[c].pc \in {"done", "panic"}
            /\ \A i \in 1..(Len(log[c].sets) - 1) : log[c].sets[i].kind = "ok"
            /\ \A i \in 1..Len(response[c].body) : DOMAIN response[c].body[i] = {"errors"}
            /\ frame[c].pc = "done" => IsErrorReply(response[c])

\* set has placed the file at variables.file and then returned an error for the
\* second path; the request ended with the error reply and without the engine.
C23_Witness ==
    \E c \in DOMAIN frame :
        /\ Len(log[c].sets) = 2
        /\ log[c].sets[1].kind = "ok"
        /\ log[c].sets[2].kind = "error"
        /\ Position(RootAfter(c), "variables.file") = log[c].sets[1].v
        /\ Position(RootBefore(c), "variables.file") = Null
        /\ frame[c].pc = "done"
        /\ IsErrorReply(response[c])

----------------------------------------------------------------------------
(* C24 *)

\* C24: once New has returned, no step changes the provider list of the app:
\* neither a call of Handler nor any step of serving a request alters the
\* length or the contents of app.ContextProviders.
C24_ProvidersFixedAfterNew ==
    [][app.made => app'.ContextProviders = app.ContextProviders]_vars

----------------------------------------------------------------------------
(* C25 *)

\* The providers New was given (with the built-in one), and those that belong to
\* the route of Handler call h: the ones of New and the ones passed to call h.
NewProviders ==
    SubSeq(app.ContextProviders, 1, Len(app.ContextProviders) - Len(Flatten(handlers)))

RouteProviders(h) ==
    {NewProviders[i] : i \in 1..Len(NewProviders)}
    \cup {handlers[h][i] : i \in 1..Len(handlers[h])}

\* C25: a provider passed to one Handler call runs only for requests of the
\* route that call made.  The closure a Handler call returns keeps the app and
\* nothing of the call, so a request is served in the same way on every route:
\* for each Handler call h, a request on its route runs no provider that was
\* passed only to another Handler call, earlier or later.
C25_ProviderOnlyOnItsRoute ==
    \A c \in DOMAIN frame :
        Invoked(c) =>
            \A h \in 1..Len(handlers) :
                \A g \in (1..Len(handlers)) \ {h} :
                    \A i \in 1..Len(handlers[g]) :
                        handlers[g][i] \notin RouteProviders(h)
                            => Calls(c, handlers[g][i]) = 0

----------------------------------------------------------------------------
(* C26 *)

\* A variables tree with its file headers taken as the parts of the form they
\* stand for, whichever call of the closure made them.
RECURSIVE Unslotted(_)
Unslotted(node) ==
    IF node.t = "obj" THEN Obj([k \in DOMAIN node.m |-> Unslotted(node.m[k])])
    ELSE IF node.t = "list" THEN List([i \in 1..Len(node.l) |-> Unslotted(node.l[i])])
    ELSE IF node.t = "file" THEN [node EXCEPT !.c = 0]
    ELSE node

\* Assembly went through for slot c: the closure has come to the provider loop.
PastAssembly(c) ==
    \/ frame[c].pc \in {"range", "context", "respond"}
    \/ Invoked(c)
    \/ RangeCrashed(c)

\* How assembly came out for the request of slot c: the variables it made for
\* the engine, or the reply written without the engine, or a crash in set.
Outcome(c) ==
    [assembled |-> PastAssembly(c),
     variables |-> IF PastAssembly(c)
                   THEN Unslotted(frame[c].graphqlRequest.VariableValues)
                   ELSE Null,
     reply |-> IF PastAssembly(c) THEN <<>> ELSE response[c].body,
     crashed |-> SetCrashed(c)]

\* The closure has gone past assembly for slot c, or has ended.
Assembled(c) == PastAssembly(c) \/ Ended(c)

\* C26: the outcome of assembly is a function of the request.  Two runs of the
\* handler on the same operations, map and form give the engine the same
\* variables, or end with the same error reply, in whatever order the entries
\* of the map and of the collected assignments are visited.
C26_AssemblyDeterministic ==
    \A c, d \in DOMAIN frame :
        (/\ request[c] = request[d]
         /\ request[c].ctype = "multipart"
         /\ Assembled(c) /\ Assembled(d)) =>
            Outcome(c) = Outcome(d)

----------------------------------------------------------------------------
(* C27 *)

\* The node that holds the position the last piece addresses.
ParentOf(root, pieces) == At(root, SubSeq(pieces, 2, Len(pieces) - 1))

\* The last piece cannot be written in its parent: an index that the parent, a
\* list, does not have, an index on anything but a list, or a field name on
\* anything but an object.
FinalMismatch(parent, p) ==
    IF AllDigits(p)
    THEN parent.t # "list" \/ DecimalValue(p) >= Len(parent.l)
    ELSE parent.t # "obj"

\* C27: when the last piece of the path is an index outside the addressed list,
\* or its kind does not match the shape of its parent, set returns an error and
\* leaves the variables unchanged; the request does not crash.
C27_FinalSegmentTotal ==
    \A c \in DOMAIN frame :
        (/\ OneSet(c)
         /\ RootBefore(c).t = "obj"
         /\ Len(Pieces(SetCall(c).path)) >= 2
         /\ Pieces(SetCall(c).path)[1] = "variables"
         /\ ParentOf(RootBefore(c), Pieces(SetCall(c).path)) # Missing
         /\ FinalMismatch(ParentOf(RootBefore(c), Pieces(SetCall(c).path)),
                          Pieces(SetCall(c).path)[Len(Pieces(SetCall(c).path))])) =>
            /\ SetCall(c).kind = "error"
            /\ frame[c].pc # "panic"
            /\ RootAfter(c) = RootBefore(c)
            /\ Ended(c) => IsErrorReply(response[c])

====
